---- MODULE Spec2Model ----
(***************************************************************************)
(* Model of examples/python_usage.py: the function letsgo(), which drives  *)
(* the external letsgo ACME agent through environment variables and a      *)
(* temporary directory, and the __main__ script that calls it twice.       *)
(*                                                                         *)
(* Text is a sequence of one-character tokens ("a", "*", ",", "CR", "LF"). *)
(* A path is a sequence of tokens too: a directory, "/", then a file name. *)
(* The filesystem is the set of temporary directories plus a function from *)
(* the paths of the existing files to their contents.  The model is of a   *)
(* POSIX host (os.linesep is "\n").                                        *)
(***************************************************************************)
EXTENDS Integers, Sequences, FiniteSets, TLC

\* ------------------------------------------------------------ bounds
MaxDomainLen == 2
MaxKeyLen == 1
NumThreads == 2

\* ------------------------------------------------- program constants
BIN_NAME == <<"letsgo">>
ACCOUNT_KEYFILE == <<"account.key">>
DefaultCaDir == <<"STAGING">>
\* __main__ calls letsgo() twice, the second time with the returned key
MainCalls == 2

\* Python's None, where a text or a path is expected
None == <<"<None>">>

\* -------------------------------------------------------------- text
DomainChars == {"a", "*", ","}
KeyChars == {"k", "CR", "LF"}

Strings(chars, n) == UNION {[1..k -> chars] : k \in 0..n}

\* index of the first occurrence of c in s, Len(s)+1 when there is none
RECURSIVE Find(_, _, _)
Find(s, c, i) ==
    IF i > Len(s) THEN Len(s) + 1
    ELSE IF s[i] = c THEN i
    ELSE Find(s, c, i + 1)

\* str.split(sep): the list of the parts of s between the separators
RECURSIVE Split(_, _)
Split(s, sep) ==
    LET i == Find(s, sep, 1) IN
    IF i > Len(s) THEN <<s>>
    ELSE <<SubSeq(s, 1, i - 1)>> \o Split(SubSeq(s, i + 1, Len(s)), sep)

\* str.replace(old, new, 1): only the first occurrence
RECURSIVE ReplaceFirst(_, _, _)
ReplaceFirst(s, old, new) ==
    IF s = <<>> THEN <<>>
    ELSE IF Head(s) = old THEN <<new>> \o Tail(s)
    ELSE <<Head(s)>> \o ReplaceFirst(Tail(s), old, new)

\* str.replace(old, new): every occurrence, scanning left to right
RECURSIVE Replace(_, _, _)
Replace(s, old, new) ==
    IF s = <<>> THEN <<>>
    ELSE IF Head(s) = old THEN <<new>> \o Replace(Tail(s), old, new)
    ELSE <<Head(s)>> \o Replace(Tail(s), old, new)

\* only the first "*" replaced
MainDomainFirstOnly(domain) == ReplaceFirst(Split(domain, ",")[1], "*", "_")
\* line 37: domain.split(",")[0].replace("*", "_")
MainDomain(domain) == Replace(Split(domain, ",")[1], "*", "_")

\* os.linesep of a POSIX host
os_linesep == <<"LF">>

\* text-mode write (newline=None): every "\n" becomes os.linesep
RECURSIVE Encode(_, _)
Encode(s, linesep) ==
    IF s = <<>> THEN <<>>
    ELSE IF Head(s) = "LF" THEN linesep \o Encode(Tail(s), linesep)
    ELSE <<Head(s)>> \o Encode(Tail(s), linesep)

\* Path.write_text(s): what ends up in the file
WriteText(s) == Encode(s, os_linesep)

\* Path.read_text(): text-mode read with universal newlines: "\r\n" and a
\* lone "\r" are both returned as "\n"
RECURSIVE ReadText(_)
ReadText(b) ==
    IF b = <<>> THEN <<>>
    ELSE IF Head(b) = "CR" THEN
        IF Len(b) >= 2 /\ b[2] = "LF"
        THEN <<"LF">> \o ReadText(SubSeq(b, 3, Len(b)))
        ELSE <<"LF">> \o ReadText(Tail(b))
    ELSE <<Head(b)>> \o ReadText(Tail(b))

\* ------------------------------------------------------------- paths
\* PurePath.joinpath(name)
JoinPath(dir, name) == dir \o <<"/">> \o name

InDir(path, dir) ==
    /\ Len(path) > Len(dir)
    /\ SubSeq(path, 1, Len(dir)) = dir

\* the files of `fs` that live in directory dir
FilesIn(fs, dir) == [f \in {g \in DOMAIN fs : InDir(g, dir)} |-> fs[f]]

\* shutil.rmtree: everything but the files under dir
RemoveTree(fs, dir) == [f \in {g \in DOMAIN fs : ~InDir(g, dir)} |-> fs[f]]

TmpDir(i) == <<"/tmp/", "tmp" \o ToString(i)>>

DefaultBinPath == <<"/usr/bin/letsgo">>
OtherBinPath == <<"/opt/letsgo">>

\* ------------------------------------------------------- environment
OverlayKeys == {"DOMAINS", "ACCOUNT_EMAIL", "DNS_AUTH_TOKEN_VAULT", "CA_DIR",
                "OUTPUT_DIRECTORY", "FILENAME", "ACCOUNT_KEY_FILE"}

\* the process environments the script may be started in: one that shares
\* no key with the overlay, one that already holds three of its keys
Environs ==
    { [k \in {"PATH", "HOME"} |->
          IF k = "PATH" THEN <<"/usr/bin">> ELSE <<"/root">>],
      [k \in {"PATH", "DOMAINS", "FILENAME", "ACCOUNT_KEY_FILE"} |->
          IF k = "PATH" THEN <<"/usr/bin">> ELSE <<"stale">>] }

\* an assignment that keeps the value of a key the dict already holds
UpdateInheritedWins(env, items) == env @@ items
\* cmd_env[k] = v for every k, v of items: the new items win over the old
Update(env, items) == items @@ env

\* cmd_env = os.environ, without the copy: the assignments reach os.environ
EnvironAliased(env, items) == Update(env, items)
\* os.environ after letsgo() has assigned `items` to cmd_env: cmd_env is a
\* copy (os.environ.copy()), so the process environment is left as it is
EnvironAfter(env, items) == env

\* ---------------------------------------------------------- requests
Request(domain, email, keyvault, account_key, ca_dir, bin_name) ==
    [domain |-> domain, account_email |-> email, keyvault |-> keyvault,
     account_key |-> account_key, ca_dir |-> ca_dir, bin_name |-> bin_name]

\* the arguments of a call of letsgo(): every domain list and account key
\* within the bounds, the default binary or a path given by the caller
Requests ==
    { Request(d, <<"support@example.com">>, <<"demo-keyvault">>, k,
              DefaultCaDir, b) :
        d \in Strings(DomainChars, MaxDomainLen),
        k \in Strings(KeyChars, MaxKeyLen),
        b \in {BIN_NAME, OtherBinPath} }

\* the request of thread i when several threads call letsgo() at once
ThreadRequest(i) ==
    Request(<<"*", ToString(i)>>, <<"mail" \o ToString(i)>>,
            <<"vault" \o ToString(i)>>,
            IF i % 2 = 0 THEN <<"k", ToString(i)>> ELSE <<>>,
            <<"CA" \o ToString(i)>>,
            IF i % 2 = 0 THEN OtherBinPath ELSE BIN_NAME)

\* ------------------------------------------------- the external agent
\* What one run of the agent does: its exit status, what it leaves in
\* {FILENAME}.crt, .key and .issuer.crt, and what it puts in the account
\* key file when that file does not exist yet.
Behaviours ==
    [status : {"zero", "nonzero"},
     crt : {"absent", "empty", "pem"},
     key : {"absent", "empty", "pem"},
     issuer : {"absent", "empty", "pem"},
     account : {"absent", "empty", "generated"}]

Behaviour(status, crt, key, issuer, account) ==
    [status |-> status, crt |-> crt, key |-> key, issuer |-> issuer,
     account |-> account]

\* the agents used when several threads run: one that works, one that
\* fails after writing its files, one that forgets the private key
FewBehaviours ==
    { Behaviour("zero", "pem", "pem", "pem", "generated"),
      Behaviour("nonzero", "pem", "pem", "pem", "generated"),
      Behaviour("zero", "pem", "absent", "pem", "generated") }

Written(what, pem) == IF what = "empty" THEN <<>> ELSE pem

\* the files the agent writes, from its environment alone; an account key
\* file that exists is used and left as it is
AgentWrites(env, b, fs) ==
    LET out == env["OUTPUT_DIRECTORY"]
        stem == env["FILENAME"]
        crtf == JoinPath(out, stem \o <<".crt">>)
        keyf == JoinPath(out, stem \o <<".key">>)
        iss == JoinPath(out, stem \o <<".issuer.crt">>)
        acc == env["ACCOUNT_KEY_FILE"]
        new == {f \in {crtf, keyf, iss, acc} :
                   \/ f = crtf /\ b.crt # "absent"
                   \/ f = keyf /\ b.key # "absent"
                   \/ f = iss /\ b.issuer # "absent"
                   \/ f = acc /\ b.account # "absent" /\ acc \notin DOMAIN fs}
    IN  [f \in new |->
            IF f = crtf THEN Written(b.crt, <<"CERT">>)
            ELSE IF f = keyf THEN Written(b.key, <<"KEY">>)
            ELSE IF f = iss THEN Written(b.issuer, <<"CHAIN">>)
            ELSE Written(b.account, <<"GEN">>)] @@ fs

\* ------------------------------------------------------------- state
VARIABLES
    threads,      \* the threads that call letsgo()
    environ,      \* os.environ of the process
    inherited,    \* os.environ as it was when the process started
    executables,  \* the executable files that exist on the host
    stubs,        \* what a run of the agent may do
    dirs,         \* the temporary directories that exist
    files,        \* path -> content, for every file that exists
    pc,           \* per thread: where it is in letsgo()
    calls,        \* per thread: calls of letsgo() made so far
    req,          \* per thread: the arguments of the current call
    bin_path, cmd_env, main_domain, tmpdir,    \* per thread: locals
    cert, key, issuer, account_key,            \* per thread: locals
    err,          \* per thread: the exception in flight
    result,       \* per thread: the dictionary returned
    created,      \* per thread: the directories this call has created
    child,        \* per thread: what the launch of the agent saw and did
    reads         \* per thread: the paths read_text() was called on

world == <<threads, environ, inherited, executables, stubs>>
fsys == <<dirs, files>>
locals == <<bin_path, cmd_env, main_domain, tmpdir, cert, key, issuer,
            account_key>>
frame == <<calls, req, err, result>>
ghosts == <<created, child, reads>>
vars == <<world, fsys, pc, locals, frame, ghosts>>

NoErr == [type |-> "none", stage |-> "none", filename |-> None]
Raise(type, stage, filename) ==
    [type |-> type, stage |-> stage, filename |-> filename]

NoResult ==
    [alias |-> None, certificate |-> None, key |-> None, issuer |-> None,
     account_key |-> None]

NoChild == [status |-> "none", env |-> <<>>, before |-> <<>>, after |-> <<>>]

\* a call of letsgo(request) by thread p starts
Enter(p, request) ==
    /\ req' = [req EXCEPT ![p] = request]
    /\ pc' = [pc EXCEPT ![p] = "resolve"]
    /\ bin_path' = [bin_path EXCEPT ![p] = None]
    /\ cmd_env' = [cmd_env EXCEPT ![p] = <<>>]
    /\ main_domain' = [main_domain EXCEPT ![p] = None]
    /\ tmpdir' = [tmpdir EXCEPT ![p] = None]
    /\ cert' = [cert EXCEPT ![p] = None]
    /\ key' = [key EXCEPT ![p] = None]
    /\ issuer' = [issuer EXCEPT ![p] = None]
    /\ account_key' = [account_key EXCEPT ![p] = request.account_key]
    /\ err' = [err EXCEPT ![p] = NoErr]
    /\ result' = [result EXCEPT ![p] = NoResult]
    /\ created' = [created EXCEPT ![p] = {}]
    /\ child' = [child EXCEPT ![p] = NoChild]
    /\ reads' = [reads EXCEPT ![p] = <<>>]

InitCall(ts, requests) ==
    /\ threads = ts
    /\ inherited = environ
    /\ dirs = {}
    /\ files = <<>>
    /\ pc = [p \in ts |-> "resolve"]
    /\ calls = [p \in ts |-> 1]
    /\ req \in requests
    /\ bin_path = [p \in ts |-> None]
    /\ cmd_env = [p \in ts |-> <<>>]
    /\ main_domain = [p \in ts |-> None]
    /\ tmpdir = [p \in ts |-> None]
    /\ cert = [p \in ts |-> None]
    /\ key = [p \in ts |-> None]
    /\ issuer = [p \in ts |-> None]
    /\ account_key = [p \in ts |-> req[p].account_key]
    /\ err = [p \in ts |-> NoErr]
    /\ result = [p \in ts |-> NoResult]
    /\ created = [p \in ts |-> {}]
    /\ child = [p \in ts |-> NoChild]
    /\ reads = [p \in ts |-> <<>>]

\* one thread, any request, any environment, with or without the binaries
Init ==
    /\ environ \in Environs
    /\ executables \in {{}, {DefaultBinPath, OtherBinPath}}
    /\ stubs = Behaviours
    /\ InitCall({1}, [{1} -> Requests])

\* NumThreads threads, each with a request of its own
InitThreads ==
    /\ environ \in Environs
    /\ executables = {DefaultBinPath, OtherBinPath}
    /\ stubs = FewBehaviours
    /\ InitCall(1..NumThreads, {[p \in 1..NumThreads |-> ThreadRequest(p)]})

\* ----------------------------------------------------------- letsgo()
\* shutil.which(name): the path of the executable found, or None
Which(name, exes) ==
    IF name = BIN_NAME /\ DefaultBinPath \in exes THEN DefaultBinPath
    ELSE None

\* lines 20-29: find the binary
Resolve(p) ==
    /\ pc[p] = "resolve"
    /\ LET found == Which(req[p].bin_name, executables) IN
       IF req[p].bin_name = BIN_NAME
       THEN IF found = None
            THEN \* pathlib.Path(None) raises TypeError
                 /\ err' = [err EXCEPT ![p] = Raise("TypeError", "resolve", None)]
                 /\ pc' = [pc EXCEPT ![p] = "raised"]
                 /\ UNCHANGED bin_path
            ELSE IF found \notin executables
            THEN \* resolve(True) of a path that does not exist
                 /\ err' = [err EXCEPT ![p] =
                               Raise("FileNotFoundError", "resolve", found)]
                 /\ pc' = [pc EXCEPT ![p] = "raised"]
                 /\ UNCHANGED bin_path
            ELSE \* as_posix() is a string, never None: line 26 is dead
                 /\ bin_path' = [bin_path EXCEPT ![p] = found]
                 /\ pc' = [pc EXCEPT ![p] = "configure"]
                 /\ UNCHANGED err
       ELSE /\ bin_path' = [bin_path EXCEPT ![p] = req[p].bin_name]
            /\ pc' = [pc EXCEPT ![p] = "configure"]
            /\ UNCHANGED err
    /\ UNCHANGED <<world, fsys, cmd_env, main_domain, tmpdir, cert, key,
                   issuer, account_key, calls, req, result, ghosts>>

RequestItems(r) ==
    [k \in {"DOMAINS", "ACCOUNT_EMAIL", "DNS_AUTH_TOKEN_VAULT", "CA_DIR"} |->
        CASE k = "DOMAINS" -> r.domain
          [] k = "ACCOUNT_EMAIL" -> r.account_email
          [] k = "DNS_AUTH_TOKEN_VAULT" -> r.keyvault
          [] k = "CA_DIR" -> r.ca_dir]

\* lines 31-37: copy the environment, set the request's keys, name the files
Configure(p) ==
    /\ pc[p] = "configure"
    /\ cmd_env' = [cmd_env EXCEPT ![p] = Update(environ, RequestItems(req[p]))]
    /\ environ' = EnvironAfter(environ, RequestItems(req[p]))
    /\ main_domain' = [main_domain EXCEPT ![p] = MainDomain(req[p].domain)]
    /\ pc' = [pc EXCEPT ![p] = "mkdtemp"]
    /\ UNCHANGED <<threads, inherited, executables, stubs, fsys, bin_path,
                   tmpdir, cert, key, issuer, account_key, frame, ghosts>>

\* tempfile.mkdtemp(): the names it may return; it never returns the name
\* of a directory that exists.  The namespace holds as many names as there
\* are threads, so a name is used again once its directory is removed.
Mkdtemp(ds, ts) == {TmpDir(i) : i \in ts} \ ds

AccountKeyFile(root_dir) == JoinPath(root_dir, ACCOUNT_KEYFILE)

WorkspaceItems(dir, alias) ==
    [k \in {"OUTPUT_DIRECTORY", "FILENAME", "ACCOUNT_KEY_FILE"} |->
        CASE k = "OUTPUT_DIRECTORY" -> dir
          [] k = "FILENAME" -> alias
          [] k = "ACCOUNT_KEY_FILE" -> AccountKeyFile(dir)]

\* lines 39-47: enter the TemporaryDirectory, set the workspace's keys
Acquire(p) ==
    /\ pc[p] = "mkdtemp"
    /\ \E d \in Mkdtemp(dirs, threads) :
        /\ dirs' = dirs \cup {d}
        /\ tmpdir' = [tmpdir EXCEPT ![p] = d]
        /\ created' = [created EXCEPT ![p] = @ \cup {d}]
        /\ cmd_env' = [cmd_env EXCEPT ![p] =
                          Update(@, WorkspaceItems(d, main_domain[p]))]
        /\ environ' = EnvironAfter(environ, WorkspaceItems(d, main_domain[p]))
    /\ pc' = [pc EXCEPT ![p] = "seed"]
    /\ UNCHANGED <<threads, inherited, executables, stubs, files, bin_path,
                   main_domain, cert, key, issuer, account_key, frame, child,
                   reads>>

\* the account key file written whatever the account key
AlwaysSeeds(k) == TRUE
\* line 49, `if account_key:`
Seeds(k) == k # <<>>

\* lines 49-50: write the account key when one was given; the write may fail
Seed(p) ==
    /\ pc[p] = "seed"
    /\ IF Seeds(account_key[p])
       THEN \/ /\ files' = (AccountKeyFile(tmpdir[p]) :>
                               WriteText(account_key[p])) @@ files
               /\ pc' = [pc EXCEPT ![p] = "run"]
               /\ UNCHANGED err
            \/ /\ err' = [err EXCEPT ![p] =
                             Raise("OSError", "seed", AccountKeyFile(tmpdir[p]))]
               /\ pc' = [pc EXCEPT ![p] = "release"]
               /\ UNCHANGED files
       ELSE /\ pc' = [pc EXCEPT ![p] = "run"]
            /\ UNCHANGED <<files, err>>
    /\ UNCHANGED <<world, dirs, locals, calls, req, result, ghosts>>

\* subprocess.run without check=True: no exit status raises
NeverFails(status) == FALSE
\* subprocess.check_output raises CalledProcessError on this exit status
CheckFails(status) == status # "zero"

\* line 52: run the agent with cmd_env and wait for it
Run(p) ==
    /\ pc[p] = "run"
    /\ IF bin_path[p] \notin executables
       THEN \* the launch fails: nothing runs
            /\ child' = [child EXCEPT ![p] =
                  [status |-> "launch_failed", env |-> cmd_env[p],
                   before |-> FilesIn(files, tmpdir[p]),
                   after |-> FilesIn(files, tmpdir[p])]]
            /\ err' = [err EXCEPT ![p] =
                          Raise("FileNotFoundError", "run", bin_path[p])]
            /\ pc' = [pc EXCEPT ![p] = "release"]
            /\ UNCHANGED files
       ELSE \E b \in stubs :
            /\ files' = AgentWrites(cmd_env[p], b, files)
            /\ child' = [child EXCEPT ![p] =
                  [status |-> b.status, env |-> cmd_env[p],
                   before |-> FilesIn(files, tmpdir[p]),
                   after |-> FilesIn(files', tmpdir[p])]]
            /\ IF CheckFails(b.status)
               THEN /\ err' = [err EXCEPT ![p] =
                          Raise("CalledProcessError", "run", bin_path[p])]
                    /\ pc' = [pc EXCEPT ![p] = "release"]
               ELSE /\ pc' = [pc EXCEPT ![p] = "read_cert"]
                    /\ UNCHANGED err
    /\ UNCHANGED <<world, dirs, locals, calls, req, result, created, reads>>

\* line 54: root_dir.joinpath(f"{main_domain}.crt")
CertFile(root_dir, alias) == JoinPath(root_dir, alias \o <<".crt">>)
\* the key looked for under another extension
KeyFilePem(root_dir, alias) == JoinPath(root_dir, alias \o <<".pem">>)
\* line 55: root_dir.joinpath(f"{main_domain}.key")
KeyFile(root_dir, alias) == JoinPath(root_dir, alias \o <<".key">>)
\* the certificate read a second time, as the issuer
IssuerFileCrt(root_dir, alias) == JoinPath(root_dir, alias \o <<".crt">>)
\* line 56: root_dir.joinpath(f"{main_domain}.issuer.crt")
IssuerFile(root_dir, alias) == JoinPath(root_dir, alias \o <<".issuer.crt">>)

\* Path(f).read_text() by thread p: the text goes to `local`, or
\* FileNotFoundError names the file and ends the with block
ReadInto(p, f, local, next) ==
    /\ reads' = [reads EXCEPT ![p] = Append(@, f)]
    /\ IF f \in DOMAIN files
       THEN /\ local' = [local EXCEPT ![p] = ReadText(files[f])]
            /\ pc' = [pc EXCEPT ![p] = next]
            /\ UNCHANGED err
       ELSE /\ err' = [err EXCEPT ![p] = Raise("FileNotFoundError", "read", f)]
            /\ pc' = [pc EXCEPT ![p] = "release"]
            /\ UNCHANGED local

\* line 54
ReadCert(p) ==
    /\ pc[p] = "read_cert"
    /\ ReadInto(p, CertFile(tmpdir[p], main_domain[p]), cert, "read_key")
    /\ UNCHANGED <<world, fsys, bin_path, cmd_env, main_domain, tmpdir, key,
                   issuer, account_key, calls, req, result, created, child>>

\* line 55
ReadKey(p) ==
    /\ pc[p] = "read_key"
    /\ ReadInto(p, KeyFile(tmpdir[p], main_domain[p]), key, "read_issuer")
    /\ UNCHANGED <<world, fsys, bin_path, cmd_env, main_domain, tmpdir, cert,
                   issuer, account_key, calls, req, result, created, child>>

\* line 56
ReadIssuer(p) ==
    /\ pc[p] = "read_issuer"
    /\ ReadInto(p, IssuerFile(tmpdir[p], main_domain[p]), issuer, "read_account")
    /\ UNCHANGED <<world, fsys, bin_path, cmd_env, main_domain, tmpdir, cert,
                   key, account_key, calls, req, result, created, child>>

\* line 58: the account key is read back into the parameter
ReadAccountKey(p) ==
    /\ pc[p] = "read_account"
    /\ ReadInto(p, AccountKeyFile(tmpdir[p]), account_key, "release")
    /\ UNCHANGED <<world, fsys, bin_path, cmd_env, main_domain, tmpdir, cert,
                   key, issuer, calls, req, result, created, child>>

\* TemporaryDirectory.__exit__ removes the directory only on a clean exit
CleanupUnlessRaised(ds, dir, e) == IF e = NoErr THEN ds \ {dir} ELSE ds
\* TemporaryDirectory.__exit__: the directories left, whatever the exit
Cleanup(ds, dir, e) == ds \ {dir}

\* the with block of line 39 is left, by its end or by an exception
Release(p) ==
    /\ pc[p] = "release"
    /\ dirs' = Cleanup(dirs, tmpdir[p], err[p])
    /\ files' = IF tmpdir[p] \in dirs' THEN files
                ELSE RemoveTree(files, tmpdir[p])
    /\ pc' = [pc EXCEPT ![p] = IF err[p] = NoErr THEN "return" ELSE "raised"]
    /\ UNCHANGED <<world, locals, frame, ghosts>>

\* lines 61-67
Return(p) ==
    /\ pc[p] = "return"
    /\ result' = [result EXCEPT ![p] =
          [alias |-> main_domain[p], certificate |-> cert[p], key |-> key[p],
           issuer |-> issuer[p], account_key |-> account_key[p]]]
    /\ pc' = [pc EXCEPT ![p] = "returned"]
    /\ UNCHANGED <<world, fsys, locals, calls, req, err, ghosts>>

\* lines 75-91: __main__ calls letsgo() without an account key, then once
\* more with the account key the first call returned
CallAgain(p) ==
    /\ pc[p] = "returned"
    /\ calls[p] < MainCalls
    /\ req[p].account_key = <<>>
    /\ calls' = [calls EXCEPT ![p] = @ + 1]
    /\ Enter(p, [req[p] EXCEPT !.account_key = result[p].account_key])
    /\ UNCHANGED <<world, fsys>>

\* a step of letsgo() in some thread
Steps ==
    \/ \E p \in threads : Resolve(p)
    \/ \E p \in threads : Configure(p)
    \/ \E p \in threads : Acquire(p)
    \/ \E p \in threads : Seed(p)
    \/ \E p \in threads : Run(p)
    \/ \E p \in threads : ReadCert(p)
    \/ \E p \in threads : ReadKey(p)
    \/ \E p \in threads : ReadIssuer(p)
    \/ \E p \in threads : ReadAccountKey(p)
    \/ \E p \in threads : Release(p)
    \/ \E p \in threads : Return(p)

Next == Steps \/ \E p \in threads : CallAgain(p)

\* the script: one thread, two calls in a row
Spec == Init /\ [][Next]_vars

NextThreads == Steps

\* several threads, each calling letsgo() once, in any interleaving
SpecThreads == InitThreads /\ [][NextThreads]_vars

\* ------------------------------------------------------------ claims
\* The vocabulary of the claims, stated apart from the code above.

\* the part of d before its first comma, every "*" replaced by "_"
AliasOf(d) ==
    LET commas == {i \in 1..Len(d) : d[i] = ","}
        n == IF commas = {} THEN Len(d) + 1
             ELSE CHOOSE i \in commas : \A j \in commas : i <= j
    IN  [k \in 1..(n - 1) |-> IF d[k] = "*" THEN "_" ELSE d[k]]

\* the four files letsgo() is to read, in read order, for a workspace
Artifacts(dir, d) ==
    << dir \o <<"/">> \o AliasOf(d) \o <<".crt">>,
       dir \o <<"/">> \o AliasOf(d) \o <<".key">>,
       dir \o <<"/">> \o AliasOf(d) \o <<".issuer.crt">>,
       dir \o <<"/", "account.key">> >>

\* the error kinds of the specification, as the exceptions of the code
ErrorKind(e) ==
    CASE e.type = "FileNotFoundError" /\ e.stage = "resolve" -> "ExecutableNotFound"
      [] e.stage = "run" -> "ProcessFailed"
      [] e.type = "FileNotFoundError" /\ e.stage = "read" -> "MissingArtifact"
      [] e.type = "none" -> "none"
      [] OTHER -> "other"

Ended(p) == pc[p] \in {"returned", "raised"}
Launched(p) == child[p].status # "none"
Gone(dir) == dir \notin dirs /\ DOMAIN FilesIn(files, dir) = {}

\* the executable the call is asked to run does not exist
ExecutableMissing(p) ==
    IF req[p].bin_name = BIN_NAME THEN DefaultBinPath \notin executables
    ELSE req[p].bin_name \notin executables

\* C1: once a call that created a temporary directory has ended, by a
\* result or by any exception, that directory and its files are gone.
C1_WorkspaceGone ==
    \A p \in threads :
        Ended(p) => \A d \in created[p] : Gone(d)

\* a call has ended by a failed read, after the agent left files behind
C1_Witness ==
    \E p \in threads :
        /\ pc[p] = "raised"
        /\ created[p] # {}
        /\ err[p].stage = "read"
        /\ DOMAIN child[p].after # {}

\* C2: when the executable does not exist, the call fails with the
\* executable-not-found kind, before a workspace is created and before a
\* launch is attempted.
C2_MissingExecutable ==
    \A p \in threads :
        ExecutableMissing(p) =>
            /\ pc[p] \in {"resolve", "raised"}
            /\ created[p] = {}
            /\ ~Launched(p)
            /\ pc[p] = "raised" => ErrorKind(err[p]) = "ExecutableNotFound"

\* C3: when the agent exits non-zero or cannot be launched, the call ends
\* with a process-failed error, reads none of the four files, and the
\* workspace is released.
C3_ProcessFailed ==
    \A p \in threads :
        child[p].status \in {"nonzero", "launch_failed"} =>
            /\ pc[p] \in {"release", "raised"}
            /\ ErrorKind(err[p]) = "ProcessFailed"
            /\ reads[p] = <<>>
            /\ result[p] = NoResult
            /\ pc[p] = "raised" => \A d \in created[p] : Gone(d)

\* the agent exited non-zero with all four files in the workspace, and the
\* call has ended
C3_Witness ==
    \E p \in threads :
        /\ pc[p] = "raised"
        /\ child[p].status = "nonzero"
        /\ \A i \in 1..4 :
              Artifacts(tmpdir[p], req[p].domain)[i] \in DOMAIN child[p].after

Absent(p) ==
    {i \in 1..4 :
        Artifacts(tmpdir[p], req[p].domain)[i] \notin DOMAIN child[p].after}

\* C4: when the agent exits 0 and one of the four files is absent, the
\* call returns no result: it ends with a missing-artifact error naming
\* the first absent file in read order, and the workspace is released.
C4_MissingArtifact ==
    \A p \in threads :
        (child[p].status = "zero" /\ Absent(p) # {}) =>
            /\ pc[p] \notin {"return", "returned"}
            /\ result[p] = NoResult
            /\ pc[p] \in {"release", "raised"} =>
                  /\ ErrorKind(err[p]) = "MissingArtifact"
                  /\ \E i \in Absent(p) :
                        /\ \A j \in Absent(p) : i <= j
                        /\ err[p].filename =
                              Artifacts(tmpdir[p], req[p].domain)[i]
            /\ pc[p] = "raised" => \A d \in created[p] : Gone(d)

\* the call has ended after an agent that exited 0 left the certificate
\* but neither the key nor the issuer
C4_Witness ==
    \E p \in threads :
        /\ pc[p] = "raised"
        /\ child[p].status = "zero"
        /\ 1 \notin Absent(p)
        /\ {2, 3} \subseteq Absent(p)

ResultFields(r) == <<r.certificate, r.key, r.issuer, r.account_key>>

C6_AccountKeyRoundTrip ==
    \A p \in threads :
        (pc[p] = "returned" /\ req[p].account_key # <<>>) =>
            result[p].account_key = req[p].account_key

\* the environment the agent is to get: the seven keys from the request and
\* the workspace, and every other inherited key with its inherited value
ExpectedEnv(r, dir, env) ==
    /\ DOMAIN env = DOMAIN inherited \cup OverlayKeys
    /\ env["DOMAINS"] = r.domain
    /\ env["ACCOUNT_EMAIL"] = r.account_email
    /\ env["DNS_AUTH_TOKEN_VAULT"] = r.keyvault
    /\ env["CA_DIR"] = r.ca_dir
    /\ env["OUTPUT_DIRECTORY"] = dir
    /\ env["FILENAME"] = AliasOf(r.domain)
    /\ env["ACCOUNT_KEY_FILE"] = dir \o <<"/", "account.key">>
    /\ \A k \in DOMAIN inherited \ OverlayKeys : env[k] = inherited[k]

\* C7: the environment handed to the agent is the seven overlay keys with
\* the request-derived values plus every inherited key that is not one of
\* the seven, with its inherited value.
C7_ChildEnvironment ==
    \A p \in threads :
        Launched(p) => ExpectedEnv(req[p], tmpdir[p], child[p].env)

\* the agent was launched from an environment that already held overlay keys
C7_Witness ==
    \E p \in threads :
        /\ Launched(p)
        /\ "DOMAINS" \in DOMAIN inherited
        /\ inherited["DOMAINS"] # req[p].domain

IsPrefix(s, t) == Len(s) <= Len(t) /\ SubSeq(t, 1, Len(s)) = s

\* C8: the primary alias is the part of the domain list before the first
\* comma with every "*" replaced by "_", and that value is FILENAME in the
\* agent's environment, the stem of the files read and the result's alias.
C8_PrimaryAlias ==
    \A p \in threads :
        /\ pc[p] \notin {"resolve", "configure", "raised"} =>
              main_domain[p] = AliasOf(req[p].domain)
        /\ Launched(p) => child[p].env["FILENAME"] = AliasOf(req[p].domain)
        /\ reads[p] # <<>> =>
              IsPrefix(reads[p], Artifacts(tmpdir[p], req[p].domain))
        /\ pc[p] = "returned" => result[p].alias = AliasOf(req[p].domain)

\* a result was returned for a domain list of two wildcards
C8_Witness ==
    \E p \in threads :
        /\ pc[p] = "returned"
        /\ req[p].domain = <<"*", "*">>
        /\ Len(reads[p]) = 4

\* C9: when the agent is launched, account.key exists in the workspace
\* exactly when the request's account key is non-empty, its content is then
\* the account key, and the workspace holds no other file.
C9_SeededWorkspace ==
    \A p \in threads :
        Launched(p) =>
            LET f == tmpdir[p] \o <<"/", "account.key">> IN
            IF req[p].account_key # <<>>
            THEN /\ DOMAIN child[p].before = {f}
                 /\ child[p].before[f] = req[p].account_key
            ELSE DOMAIN child[p].before = {}

\* the agent was launched with an account key that holds a newline
C9_Witness ==
    \E p \in threads :
        /\ Launched(p)
        /\ req[p].account_key = <<"LF">>

Holding(p) ==
    pc[p] \in {"seed", "run", "read_cert", "read_key", "read_issuer",
               "read_account", "release"}

\* C10: in any interleaving of concurrent calls, no two calls hold the same
\* workspace, each agent gets the environment built from its own call's
\* request and from no other's, and os.environ stays as it was.
C10_Isolation ==
    /\ \A p, q \in threads :
          (p # q /\ Holding(p) /\ Holding(q)) => tmpdir[p] # tmpdir[q]
    /\ \A p \in threads :
          Launched(p) =>
              /\ ExpectedEnv(req[p], tmpdir[p], child[p].env)
              /\ \A q \in threads \ {p} :
                    /\ child[p].env["DOMAINS"] # req[q].domain
                    /\ child[p].env["ACCOUNT_EMAIL"] # req[q].account_email
                    /\ child[p].env["DNS_AUTH_TOKEN_VAULT"] # req[q].keyvault
                    /\ child[p].env["CA_DIR"] # req[q].ca_dir
                    /\ child[p].env["FILENAME"] # AliasOf(req[q].domain)
                    /\ (Holding(p) /\ Holding(q)) =>
                          child[p].env["OUTPUT_DIRECTORY"] # tmpdir[q]
    /\ environ = inherited

\* two calls hold a workspace at once, both with their agent launched
C10_Witness ==
    \E p, q \in threads :
        /\ p # q
        /\ pc[p] = "release" /\ Launched(p)
        /\ pc[q] = "read_key" /\ Launched(q)
====
